---- MODULE Spec2Model ----
(***************************************************************************)
(* Model of src/src/result/program.rs (Scout): discovery of desktop        *)
(* entries (ProgramResult::find_all), the command sanitizer (format_exec), *)
(* the category classifier (choose_category), the fuzzy ranking            *)
(* (get_ranking) and activation.                                           *)
(*                                                                         *)
(* Strings are sequences of one-character strings, so that splitting,      *)
(* replacing and case conversion are computed character by character.      *)
(***************************************************************************)
EXTENDS Integers, Sequences, FiniteSets, TLC

VARIABLES
    \* ---- find_all / activate
    pc,             \* find_all: "loop" (while head), "iter" (in the for loop), "done",
                    \* "panicked"; activation: "ready", "crashed"; "idle" when not run
    search_paths,   \* the work-list (a Vec used as a stack)
    path,           \* the directory whose dir_iter is being consumed
    yielded,        \* number of entries dir_iter has yielded so far
    found,          \* the Vec<ProgramResult> being built
    nodes,          \* number of directory entries the file system has shown so far
    listed,         \* history: directories popped from the work-list, in order
    pushed,         \* history: directories ever put on the work-list
    io_skipped,     \* history: paths on which an I/O operation failed
    eligible,       \* history: parsed files with Exec and both flags "false"
    malformed,      \* history: parsed files listing an action without Exec
    activation,     \* outcome of the most recent activation
    launched,       \* argv of every process spawned
    \* ---- get_ranking
    rk_pc, rk_name, rk_query, lowercase_name, rk_i, score, last_letter_ind,
    \* ---- choose_category
    cat_pc, cat_list, cat_out,
    \* ---- format_exec
    fe_pc, fe_exec, fe_out

scanVars == <<pc, search_paths, path, yielded, found, nodes, listed, pushed,
              io_skipped, eligible, malformed, activation, launched>>
rankVars == <<rk_pc, rk_name, rk_query, lowercase_name, rk_i, score, last_letter_ind>>
catVars  == <<cat_pc, cat_list, cat_out>>
execVars == <<fe_pc, fe_exec, fe_out>>
vars     == <<scanVars, rankVars, catVars, execVars>>

(***************************************************************************)
(* Bounds of the model.                                                    *)
(***************************************************************************)
MaxDepth == 2       \* nesting levels of directories below a root
MaxNodes == 4       \* directory entries shown by the file system in one pass
MaxResults == 3     \* results in the collection activations are tried on
MaxLaunches == 1    \* successful activations in a row
MaxNameLen == 3     \* length of the generated candidate names
MaxQueryLen == 2    \* length of the generated queries
MaxCatTokens == 2   \* tokens of the generated category lists
MaxExecLen == 3     \* length of the generated raw commands

(***************************************************************************)
(* Characters and strings.                                                 *)
(***************************************************************************)
LowerLetters == <<"a","b","c","d","e","f","g","h","i","j","k","l","m",
                  "n","o","p","q","r","s","t","u","v","w","x","y","z">>
UpperLetters == <<"A","B","C","D","E","F","G","H","I","J","K","L","M",
                  "N","O","P","Q","R","S","T","U","V","W","X","Y","Z">>

is_lowercase(c) == \E i \in 1..26 : LowerLetters[i] = c
is_uppercase(c) == \E i \in 1..26 : UpperLetters[i] = c
is_whitespace(c) == c \in {" ", "\t", "\n"}

to_uppercase_char(c) ==
    IF is_lowercase(c) THEN UpperLetters[CHOOSE i \in 1..26 : LowerLetters[i] = c] ELSE c
to_lowercase_char(c) ==
    IF is_uppercase(c) THEN LowerLetters[CHOOSE i \in 1..26 : UpperLetters[i] = c] ELSE c

to_uppercase(s) == [i \in 1..Len(s) |-> to_uppercase_char(s[i])]
to_lowercase(s) == [i \in 1..Len(s) |-> to_lowercase_char(s[i])]

\* Option<&str>
None == [some |-> FALSE, val |-> <<>>]
Some(s) == [some |-> TRUE, val |-> s]
unwrap_or(o, d) == IF o.some THEN o.val ELSE d

\* All sequences over S of length at most n.
SeqsUpTo(S, n) == UNION {[1..k -> S] : k \in 0..n}

\* Does pat occur in s at position i (1-based)?
MatchesAt(s, i, pat) ==
    /\ i + Len(pat) - 1 <= Len(s)
    /\ \A k \in 1..Len(pat) : s[i + k - 1] = pat[k]

\* str::replace: the non-overlapping matches, found left to right in one scan,
\* are replaced; no rescan of the text a replacement produces.
RECURSIVE ReplaceFrom(_, _, _, _)
ReplaceFrom(s, i, pat, to) ==
    IF i > Len(s) THEN <<>>
    ELSE IF MatchesAt(s, i, pat) THEN to \o ReplaceFrom(s, i + Len(pat), pat, to)
    ELSE <<s[i]>> \o ReplaceFrom(s, i + 1, pat, to)

replace(s, pat, to) == ReplaceFrom(s, 1, pat, to)

\* str::split on one character: "" gives [""], "a;" gives ["a", ""].
RECURSIVE SplitFrom(_, _, _, _)
SplitFrom(s, i, sep, cur) ==
    IF i > Len(s) THEN <<cur>>
    ELSE IF s[i] = sep THEN <<cur>> \o SplitFrom(s, i + 1, sep, <<>>)
    ELSE SplitFrom(s, i + 1, sep, Append(cur, s[i]))

split(s, sep) == SplitFrom(s, 1, sep, <<>>)

RECURSIVE Join(_, _)
Join(toks, sep) ==
    IF toks = <<>> THEN <<>>
    ELSE IF Len(toks) = 1 THEN toks[1]
    ELSE toks[1] \o sep \o Join(Tail(toks), sep)

Max(a, b) == IF a >= b THEN a ELSE b

(***************************************************************************)
(* format_exec                                                             *)
(***************************************************************************)
format_exec(exec) ==
    replace(replace(replace(replace(replace(exec,
        <<"%","f">>, <<>>), <<"%","F">>, <<>>), <<"%","D">>, <<"~">>),
        <<"%","u">>, <<>>), <<"%","U">>, <<>>)

ExecAlphabet == {"%", "f", "F", "D", "u", "U", "a", " "}
ExampleExec == <<"a","p","p"," ","%","f"," ","-","-","f","l","a","g"," ","%","U">>
ExecInputs == SeqsUpTo(ExecAlphabet, MaxExecLen) \cup {ExampleExec}

ExecInit ==
    /\ fe_pc = "start"
    /\ fe_exec \in ExecInputs
    /\ fe_out = <<>>

ApplyFormatExec ==
    /\ fe_pc = "start"
    /\ fe_out' = format_exec(fe_exec)
    /\ fe_pc' = "done"
    /\ UNCHANGED <<fe_exec, scanVars, rankVars, catVars>>

(***************************************************************************)
(* choose_category                                                         *)
(***************************************************************************)
EXCLUDED_CATEGORIES == {
    <<"A","P","P","L","I","C","A","T","I","O","N">>,
    <<"C","O","N","S","O","L","E","O","N","L","Y">>,
    <<"N","E","T","W","O","R","K">>,
    <<"F","I","L","E","T","R","A","N","S","F","E","R">>,
    <<"T","E","X","T","E","D","I","T","O","R">>,
    <<"X","-","X","F","C","E">>,
    <<"G","N","O","M","E">>,
    <<"X","F","C","E">>,
    <<"G","T","K">>,
    <<"K","D","E">> }

\* convert_case, Case::Title: the text is cut into words at the delimiters
\* '-', '_', ' ' and at case boundaries (lower|Upper, and UPPER|Upper-lower);
\* empty words are dropped, each word is capitalised, words are joined by ' '.
is_delimiter(c) == c \in {"-", "_", " "}

is_boundary(s, i) ==
    /\ i < Len(s)
    /\ \/ is_lowercase(s[i]) /\ is_uppercase(s[i + 1])
       \/ /\ i + 2 <= Len(s)
          /\ is_uppercase(s[i]) /\ is_uppercase(s[i + 1]) /\ is_lowercase(s[i + 2])

RECURSIVE WordsFrom(_, _, _)
WordsFrom(s, i, cur) ==
    IF i > Len(s) THEN (IF cur = <<>> THEN <<>> ELSE <<cur>>)
    ELSE IF is_delimiter(s[i])
         THEN (IF cur = <<>> THEN <<>> ELSE <<cur>>) \o WordsFrom(s, i + 1, <<>>)
    ELSE IF is_boundary(s, i)
         THEN <<Append(cur, s[i])>> \o WordsFrom(s, i + 1, <<>>)
    ELSE WordsFrom(s, i + 1, Append(cur, s[i]))

capitalize(w) ==
    [i \in 1..Len(w) |-> IF i = 1 THEN to_uppercase_char(w[i]) ELSE to_lowercase_char(w[i])]

to_case_title(s) ==
    LET words == WordsFrom(s, 1, <<>>)
    IN  Join([i \in 1..Len(words) |-> capitalize(words[i])], <<" ">>)

\* The tokens the filter of choose_category keeps, in order.
RECURSIVE FilterExcluded(_)
FilterExcluded(toks) ==
    IF toks = <<>> THEN <<>>
    ELSE IF to_uppercase(toks[1]) \in EXCLUDED_CATEGORIES
         THEN FilterExcluded(Tail(toks))
    ELSE <<toks[1]>> \o FilterExcluded(Tail(toks))

choose_category(list) ==
    LET kept == FilterExcluded(split(unwrap_or(list, <<>>), ";"))
        first == IF Len(kept) > 0 THEN kept[1]
                 ELSE <<"A","p","p","l","i","c","a","t","i","o","n">>
    IN  to_uppercase(to_case_title(first))

CatTokens == {
    <<>>,
    <<"G","T","K">>,
    <<"g","t","k">>,
    <<"K","D","E">>,
    <<"U","t","i","l","i","t","y">>,
    <<"A","u","d","i","o","V","i","d","e","o">>,
    <<"A","p","p","l","i","c","a","t","i","o","n">> }

\* The category lists tried: absent, or up to MaxCatTokens tokens joined by ';',
\* with or without a trailing ';'.
CatInputs ==
    {None}
    \cup {Some(Join(t, <<";">>)) : t \in SeqsUpTo(CatTokens, MaxCatTokens)}
    \cup {Some(Join(t, <<";">>) \o <<";">>) : t \in SeqsUpTo(CatTokens, MaxCatTokens)}

CatInit ==
    /\ cat_pc = "start"
    /\ cat_list \in CatInputs
    /\ cat_out = <<>>

ApplyChooseCategory ==
    /\ cat_pc = "start"
    /\ cat_out' = choose_category(cat_list)
    /\ cat_pc' = "done"
    /\ UNCHANGED <<cat_list, scanVars, rankVars, execVars>>

(***************************************************************************)
(* get_ranking                                                             *)
(***************************************************************************)
\* String::retain(|c| !c.is_whitespace())
RECURSIVE retain_non_whitespace(_)
retain_non_whitespace(s) ==
    IF s = <<>> THEN <<>>
    ELSE IF is_whitespace(s[1]) THEN retain_non_whitespace(Tail(s))
    ELSE <<s[1]>> \o retain_non_whitespace(Tail(s))

\* name_chars.position(|c| c == letter) on chars().skip(skip): the 0-based
\* index, counted from the first character not skipped, of the first
\* character equal to letter; -1 when there is none (map_or(-1, ..)).
position(s, skip, letter) ==
    LET hits == {k \in 0..(Len(s) - skip - 1) : s[skip + k + 1] = letter}
    IN  IF hits = {} THEN -1
        ELSE CHOOSE k \in hits : \A j \in hits : k <= j

\* A decay that starts one too high.
ContributionOffByOne(pos) == Max(11 - pos, 0)

\* score += std::cmp::max(10 - pos, 0) as usize
Contribution(pos) == Max(10 - pos, 0)

\* A cursor left on the matched character instead of just past it.
AdvanceOntoMatch(last, pos) == last + pos

\* last_letter_ind += pos as usize + 1
Advance(last, pos) == last + pos + 1

NameAlphabet == {"a", "b", "A", " "}
QueryAlphabet == {"a", "b", "A"}
Chrome == <<"c","h","r","o","m","e">>
LongName == <<"a","a","a","a","a","a","a","a","a","a","a","b">>
Names == SeqsUpTo(NameAlphabet, MaxNameLen) \cup {Chrome, LongName}
Queries == SeqsUpTo(QueryAlphabet, MaxQueryLen)
              \cup {<<"c","h">>, <<"c","r">>}

RankInit ==
    /\ rk_pc = "start"
    /\ rk_name \in Names
    /\ rk_query \in Queries
    /\ lowercase_name = <<>>
    /\ rk_i = 0
    /\ score = 0
    /\ last_letter_ind = 0

\* Lines 266-269: the locals, and the name lowercased and stripped.
RankNormalize ==
    /\ rk_pc = "start"
    /\ lowercase_name' = retain_non_whitespace(to_lowercase(rk_name))
    /\ score' = 0
    /\ last_letter_ind' = 0
    /\ rk_i' = 0
    /\ rk_pc' = "letters"
    /\ UNCHANGED <<rk_name, rk_query, scanVars, catVars, execVars>>

\* One iteration of the loop over query.chars() (lines 271-278).
RankLetter ==
    /\ rk_pc = "letters"
    /\ rk_i < Len(rk_query)
    /\ LET letter == rk_query[rk_i + 1]
           pos == position(lowercase_name, last_letter_ind, letter)
       IN  IF pos >= 0
           THEN /\ last_letter_ind' = Advance(last_letter_ind, pos)
                /\ score' = score + Contribution(pos)
           ELSE UNCHANGED <<last_letter_ind, score>>
    /\ rk_i' = rk_i + 1
    /\ UNCHANGED <<rk_pc, rk_name, rk_query, lowercase_name, scanVars, catVars, execVars>>

\* The loop is over: score is returned (line 280).
RankReturn ==
    /\ rk_pc = "letters"
    /\ rk_i = Len(rk_query)
    /\ rk_pc' = "done"
    /\ UNCHANGED <<rk_name, rk_query, lowercase_name, rk_i, score, last_letter_ind,
                   scanVars, catVars, execVars>>

(***************************************************************************)
(* Desktop entry files, as freedesktop_entry_parser presents them: the     *)
(* attributes of the "Desktop Entry" section and, by action identifier,    *)
(* those of each "Desktop Action <id>" section.                            *)
(***************************************************************************)
S_false == <<"f","a","l","s","e">>
S_true == <<"t","r","u","e">>
S_app == <<"a","p","p">>
S_open == <<"o","p","e","n">>
S_edit == <<"e","d","i","t">>
S_UnnamedApplication ==
    <<"U","n","n","a","m","e","d"," ","A","p","p","l","i","c","a","t","i","o","n">>
S_UnnamedAction == <<"U","n","n","a","m","e","d"," ","A","c","t","i","o","n">>

NoAttrs == [NoDisplay |-> None, Hidden |-> None, Exec |-> None, Actions |-> None,
            Categories |-> None, Name |-> None]
NoSections == [n \in {} |-> [Name |-> None, Exec |-> None]]

\* Exec=app %U, Categories=GTK;Game, Actions=open; with a complete action section
NormalEntry ==
    [entry |-> [NoAttrs EXCEPT !.Exec = Some(S_app \o <<" ","%","U">>),
                               !.Categories = Some(<<"G","T","K",";","G","a","m","e">>),
                               !.Actions = Some(S_open \o <<";">>)],
     sections |-> (S_open :> [Name |-> None, Exec |-> Some(S_edit \o <<" ","%","f">>)])]
\* NoDisplay=true
NoDisplayEntry ==
    [entry |-> [NoAttrs EXCEPT !.Exec = Some(S_app), !.NoDisplay = Some(S_true)],
     sections |-> NoSections]
\* Hidden=true, NoDisplay=false
HiddenEntry ==
    [entry |-> [NoAttrs EXCEPT !.Exec = Some(S_app), !.Hidden = Some(S_true),
                               !.NoDisplay = Some(S_false)],
     sections |-> NoSections]
\* no Exec key
NoExecEntry ==
    [entry |-> [NoAttrs EXCEPT !.Name = Some(S_app)], sections |-> NoSections]
\* Actions=open;edit where [Desktop Action open] has no Exec
BadActionEntry ==
    [entry |-> [NoAttrs EXCEPT !.Exec = Some(S_app),
                               !.Actions = Some(S_open \o <<";">> \o S_edit)],
     sections |-> (S_open :> [Name |-> Some(S_open), Exec |-> None])
                  @@ (S_edit :> [Name |-> None, Exec |-> Some(S_app)])]
\* Exec=%U
PlaceholderOnlyEntry ==
    [entry |-> [NoAttrs EXCEPT !.Exec = Some(<<"%","U">>)], sections |-> NoSections]
\* Exec="app   (a quote never closed)
OpenQuoteEntry ==
    [entry |-> [NoAttrs EXCEPT !.Exec = Some(<<"\"">> \o S_app)], sections |-> NoSections]

EntryFiles == {NormalEntry, NoDisplayEntry, HiddenEntry, NoExecEntry, BadActionEntry,
               PlaceholderOnlyEntry}

\* parsed.section(["Desktop Action", name].join(" ")).attr(key)
section_attr(parsed, name, key) ==
    IF name \in DOMAIN parsed.sections THEN parsed.sections[name][key] ELSE None

\* s.split(';').filter(|s| !s.is_empty()).collect(), or vec![] when Actions is absent
RECURSIVE FilterNonEmpty(_)
FilterNonEmpty(toks) ==
    IF toks = <<>> THEN <<>>
    ELSE IF toks[1] = <<>> THEN FilterNonEmpty(Tail(toks))
    ELSE <<toks[1]>> \o FilterNonEmpty(Tail(toks))

action_names(parsed) ==
    IF parsed.entry.Actions.some
    THEN FilterNonEmpty(split(parsed.entry.Actions.val, ";"))
    ELSE <<>>

\* entry.attr("Exec").unwrap() of line 117 panics for some listed action
ActionUnwrapPanics(parsed) ==
    \E k \in 1..Len(action_names(parsed)) :
        ~section_attr(parsed, action_names(parsed)[k], "Exec").some

\* The Option<Vec<Action>> of lines 112-120, when no unwrap panics.
build_actions(parsed) ==
    LET names == action_names(parsed)
    IN  IF Len(names) > 0
        THEN Some([k \in 1..Len(names) |->
                     [name |-> unwrap_or(section_attr(parsed, names[k], "Name"), S_UnnamedAction),
                      exec |-> section_attr(parsed, names[k], "Exec").val]])
        ELSE None

show(entry) ==
    /\ unwrap_or(entry.NoDisplay, S_false) = S_false
    /\ unwrap_or(entry.Hidden, S_false) = S_false

\* ProgramResult::new: the record built (the widgets are presentation only).
new(p, name, category, exec, actions) ==
    [path |-> p, name |-> name, category |-> category, exec |-> exec, actions |-> actions]

(***************************************************************************)
(* find_all                                                                *)
(***************************************************************************)
Root1 == <<"/home/auri/.local/share/applications">>
Root2 == <<"/usr/share/applications">>
Root3 == <<"/usr/local/share/applications">>

\* An unwrap() in the place of or_continue!: an Err aborts the pass.
or_unwrap(res, cont, ok) == IF res = "Err" THEN "panicked" ELSE ok

\* or_continue!: the value of an Ok, or `continue` on an Err. cont is where
\* `continue` leads, ok where execution goes on with the value.
or_continue(res, cont, ok) == IF res = "Err" THEN cont ELSE ok

\* The path of the entry dir_iter yields next.
Child == Append(path, yielded + 1)

\* The claim's condition on a parsed file, kept as history for the properties.
HasExecAndShown(parsed) ==
    /\ parsed.entry.Exec.some
    /\ (~parsed.entry.NoDisplay.some \/ parsed.entry.NoDisplay.val = S_false)
    /\ (~parsed.entry.Hidden.some \/ parsed.entry.Hidden.val = S_false)

ScanInit ==
    /\ pc = "loop"
    /\ search_paths = <<Root1, Root2, Root3>>
    /\ path = <<>>
    /\ yielded = 0
    /\ found = <<>>
    /\ nodes = 0
    /\ listed = <<>>
    /\ pushed = {Root1, Root2, Root3}
    /\ io_skipped = {}
    /\ eligible = {}
    /\ malformed = {}
    /\ activation = "none"
    /\ launched = <<>>

\* Lines 91-93: pop a path and list it; a listing error skips the path.
ReadDir ==
    /\ pc = "loop"
    /\ search_paths # <<>>
    /\ \E res \in {"Ok", "Err"} :
         LET p == search_paths[Len(search_paths)]
         IN  /\ search_paths' = SubSeq(search_paths, 1, Len(search_paths) - 1)
             /\ listed' = Append(listed, p)
             /\ pc' = or_continue(res, "loop", "iter")
             /\ IF res = "Ok"
                THEN /\ path' = p
                     /\ yielded' = 0
                     /\ UNCHANGED io_skipped
                ELSE /\ io_skipped' = io_skipped \cup {p}
                     /\ UNCHANGED <<path, yielded>>
    /\ UNCHANGED <<found, nodes, pushed, eligible, malformed, activation, launched,
                   rankVars, catVars, execVars>>

\* Lines 91, 140: the work-list is empty, found is returned.
WhileExit ==
    /\ pc = "loop"
    /\ search_paths = <<>>
    /\ pc' = "done"
    /\ UNCHANGED <<search_paths, path, yielded, found, nodes, listed, pushed, io_skipped,
                   eligible, malformed, activation, launched, rankVars, catVars, execVars>>

\* Line 95: dir_iter is exhausted.
IterEnd ==
    /\ pc = "iter"
    /\ pc' = "loop"
    /\ UNCHANGED <<search_paths, path, yielded, found, nodes, listed, pushed, io_skipped,
                   eligible, malformed, activation, launched, rankVars, catVars, execVars>>

\* Line 96: dir_iter yields an Err.
IterEntryErr ==
    /\ pc = "iter"
    /\ nodes < MaxNodes
    /\ pc' = or_continue("Err", "iter", "iter")
    /\ io_skipped' = io_skipped \cup {Child}
    /\ yielded' = yielded + 1
    /\ nodes' = nodes + 1
    /\ UNCHANGED <<search_paths, path, found, listed, pushed, eligible, malformed,
                   activation, launched, rankVars, catVars, execVars>>

\* Lines 99-102: the entry is a directory.
IterDir ==
    /\ pc = "iter"
    /\ nodes < MaxNodes
    /\ Len(path) <= MaxDepth
    /\ search_paths' = Append(search_paths, Child)
    /\ pushed' = pushed \cup {Child}
    /\ yielded' = yielded + 1
    /\ nodes' = nodes + 1
    /\ UNCHANGED <<pc, path, found, listed, io_skipped, eligible, malformed,
                   activation, launched, rankVars, catVars, execVars>>

\* Line 104: a file whose extension is not "desktop".
IterOtherFile ==
    /\ pc = "iter"
    /\ nodes < MaxNodes
    /\ yielded' = yielded + 1
    /\ nodes' = nodes + 1
    /\ UNCHANGED <<pc, search_paths, path, found, listed, pushed, io_skipped, eligible,
                   malformed, activation, launched, rankVars, catVars, execVars>>

\* Line 105: parse_entry fails (the file cannot be read, or is malformed).
IterParseErr ==
    /\ pc = "iter"
    /\ nodes < MaxNodes
    /\ pc' = or_continue("Err", "iter", "iter")
    /\ io_skipped' = io_skipped \cup {Child}
    /\ yielded' = yielded + 1
    /\ nodes' = nodes + 1
    /\ UNCHANGED <<search_paths, path, found, listed, pushed, eligible, malformed,
                   activation, launched, rankVars, catVars, execVars>>

\* Lines 105-135: a .desktop file that parses.
IterEntry ==
    /\ pc = "iter"
    /\ nodes < MaxNodes
    /\ \E parsed \in EntryFiles :
         LET entry == parsed.entry
             exec == entry.Exec
         IN  /\ eligible' = IF HasExecAndShown(parsed) THEN eligible \cup {Child} ELSE eligible
             /\ malformed' = IF ActionUnwrapPanics(parsed) THEN malformed \cup {Child}
                             ELSE malformed
             /\ IF ActionUnwrapPanics(parsed)
                THEN \* line 117: unwrap() of a None
                     /\ pc' = "panicked"
                     /\ UNCHANGED found
                ELSE IF ~exec.some
                THEN \* line 123
                     UNCHANGED <<pc, found>>
                ELSE IF show(entry)
                THEN /\ found' = Append(found,
                           new(Child,
                               unwrap_or(entry.Name, S_UnnamedApplication),
                               choose_category(entry.Categories),
                               exec.val,
                               build_actions(parsed)))
                     /\ UNCHANGED pc
                ELSE UNCHANGED <<pc, found>>
    /\ yielded' = yielded + 1
    /\ nodes' = nodes + 1
    /\ UNCHANGED <<search_paths, path, listed, pushed, io_skipped, activation, launched,
                   rankVars, catVars, execVars>>

(***************************************************************************)
(* Activation                                                              *)
(***************************************************************************)
\* shell_words::split, for text without backslashes and '#': words are cut at
\* whitespace outside quotes, quotes are removed, and a quote left open is a
\* ParseError. st is "Delimiter", "Unquoted", "SingleQuoted" or "DoubleQuoted".
RECURSIVE SplitWords(_, _, _, _, _)
SplitWords(s, i, st, word, words) ==
    IF i > Len(s)
    THEN CASE st = "Delimiter" -> [ok |-> TRUE, words |-> words]
           [] st = "Unquoted"  -> [ok |-> TRUE, words |-> Append(words, word)]
           [] OTHER            -> [ok |-> FALSE, words |-> <<>>]
    ELSE LET c == s[i]
         IN  CASE st \in {"Delimiter", "Unquoted"} /\ c = "'" ->
                    SplitWords(s, i + 1, "SingleQuoted", word, words)
               [] st \in {"Delimiter", "Unquoted"} /\ c = "\"" ->
                    SplitWords(s, i + 1, "DoubleQuoted", word, words)
               [] st = "Delimiter" /\ is_whitespace(c) ->
                    SplitWords(s, i + 1, "Delimiter", word, words)
               [] st = "Unquoted" /\ is_whitespace(c) ->
                    SplitWords(s, i + 1, "Delimiter", <<>>, Append(words, word))
               [] st = "SingleQuoted" /\ c = "'" ->
                    SplitWords(s, i + 1, "Unquoted", word, words)
               [] st = "DoubleQuoted" /\ c = "\"" ->
                    SplitWords(s, i + 1, "Unquoted", word, words)
               [] st \in {"SingleQuoted", "DoubleQuoted"} ->
                    SplitWords(s, i + 1, st, Append(word, c), words)
               [] OTHER ->
                    SplitWords(s, i + 1, "Unquoted", Append(word, c), words)

shell_words_split(s) == SplitWords(s, 1, "Delimiter", <<>>, <<>>)

\* Lines 288-292 (and the same statements in the closures of lines 179-185 and
\* 223-229): sanitize, split, spawn. Every failure is an unwrap() of an Err or
\* an index out of range: a panic.
Launch(raw, spawn_ok) ==
    LET exec == format_exec(raw)
        args == shell_words_split(exec)
    IN  IF ~args.ok
        THEN /\ activation' = "split_failed"
             /\ pc' = "crashed"
             /\ UNCHANGED launched
        ELSE IF Len(args.words) = 0
        THEN /\ activation' = "no_tokens"
             /\ pc' = "crashed"
             /\ UNCHANGED launched
        ELSE IF ~spawn_ok
        THEN /\ activation' = "spawn_failed"
             /\ pc' = "crashed"
             /\ UNCHANGED launched
        ELSE /\ activation' = "launched"
             /\ launched' = Append(launched, args.words)
             /\ UNCHANGED pc

\* SearchResult::activate on one of the results (or a click on its top button).
Activate ==
    /\ pc = "ready"
    /\ Len(launched) < MaxLaunches
    /\ \E i \in 1..Len(found), spawn_ok \in BOOLEAN : Launch(found[i].exec, spawn_ok)
    /\ UNCHANGED <<search_paths, path, yielded, found, nodes, listed, pushed, io_skipped,
                   eligible, malformed, rankVars, catVars, execVars>>

\* A click on the button of one of a result's actions.
ActivateAction ==
    /\ pc = "ready"
    /\ Len(launched) < MaxLaunches
    /\ \E i \in 1..Len(found), spawn_ok \in BOOLEAN :
         /\ found[i].actions.some
         /\ \E j \in 1..Len(found[i].actions.val) :
              Launch(found[i].actions.val[j].exec, spawn_ok)
    /\ UNCHANGED <<search_paths, path, yielded, found, nodes, listed, pushed, io_skipped,
                   eligible, malformed, rankVars, catVars, execVars>>

\* The results find_all returns for a directory holding some of these files.
ActivationEntryFiles == {NormalEntry, PlaceholderOnlyEntry, OpenQuoteEntry}

ResultOf(parsed, p) ==
    new(p, unwrap_or(parsed.entry.Name, S_UnnamedApplication),
        choose_category(parsed.entry.Categories), parsed.entry.Exec.val,
        build_actions(parsed))

ActivationInit ==
    /\ pc = "ready"
    /\ \E files \in SeqsUpTo(ActivationEntryFiles, MaxResults) :
         /\ files # <<>>
         /\ found = [i \in 1..Len(files) |-> ResultOf(files[i], Append(Root2, i))]
         /\ eligible = {Append(Root2, i) : i \in 1..Len(files)}
    /\ search_paths = <<>> /\ path = <<>> /\ yielded = 0 /\ nodes = 0
    /\ listed = <<Root3, Root2, Root1>> /\ pushed = {Root1, Root2, Root3}
    /\ io_skipped = {} /\ malformed = {}
    /\ activation = "none"
    /\ launched = <<>>

(***************************************************************************)
(* Specifications                                                          *)
(***************************************************************************)
ScanIdle ==
    /\ pc = "idle" /\ search_paths = <<>> /\ path = <<>> /\ yielded = 0 /\ found = <<>>
    /\ nodes = 0 /\ listed = <<>> /\ pushed = {} /\ io_skipped = {} /\ eligible = {}
    /\ malformed = {} /\ activation = "none" /\ launched = <<>>
RankIdle ==
    /\ rk_pc = "idle" /\ rk_name = <<>> /\ rk_query = <<>> /\ lowercase_name = <<>>
    /\ rk_i = 0 /\ score = 0 /\ last_letter_ind = 0
CatIdle == cat_pc = "idle" /\ cat_list = None /\ cat_out = <<>>
ExecIdle == fe_pc = "idle" /\ fe_exec = <<>> /\ fe_out = <<>>

\* One discovery pass.
Init == ScanInit /\ RankIdle /\ CatIdle /\ ExecIdle
Next ==
    \/ ReadDir \/ WhileExit \/ IterEnd \/ IterEntryErr \/ IterDir \/ IterOtherFile
    \/ IterParseErr \/ IterEntry
Spec == Init /\ [][Next]_vars

\* Activations on a collection find_all returned.
ActivationSpecInit == ActivationInit /\ RankIdle /\ CatIdle /\ ExecIdle
ActivationNext == Activate \/ ActivateAction
ActivationSpec == ActivationSpecInit /\ [][ActivationNext]_vars

\* get_ranking on every name and query of the bounded sets.
RankSpecInit == RankInit /\ ScanIdle /\ CatIdle /\ ExecIdle
RankNext == RankNormalize \/ RankLetter \/ RankReturn
RankSpec == RankSpecInit /\ [][RankNext]_vars

\* choose_category on every list of the bounded set.
CatSpecInit == CatInit /\ ScanIdle /\ RankIdle /\ ExecIdle
CatNext == ApplyChooseCategory
CatSpec == CatSpecInit /\ [][CatNext]_vars

\* format_exec on every raw command of the bounded set.
ExecSpecInit == ExecInit /\ ScanIdle /\ RankIdle /\ CatIdle
ExecNext == ApplyFormatExec
ExecSpec == ExecSpecInit /\ [][ExecNext]_vars

(***************************************************************************)
(* Properties of find_all (specification Spec)                             *)
(***************************************************************************)
ResultPaths == {found[i].path : i \in 1..Len(found)}

\* C1: an entry file that lists an action whose section has no Exec key is an
\* error of that file only: the discovery pass does not abort, and when it
\* returns, every other file with Exec and both flags "false" has its result.
C1_MalformedActionNotFatal ==
    malformed # {} =>
        /\ pc # "panicked"
        /\ pc = "done" => (eligible \ malformed) \subseteq ResultPaths

\* C2: an I/O failure on a path (a directory that cannot be listed, a directory
\* entry that cannot be read, an entry file that cannot be read or parsed) skips
\* that path only. The step on which it happens leaves the results collected so
\* far untouched and the scan running on the remaining work (the rest of the
\* work-list, the rest of the directory being listed); no result ever belongs
\* to a skipped path; and the collection returned holds the result of every
\* file with Exec and both flags "false" that was parsed.
C2_IOFailureSkipsOnlyThatPath ==
    /\ [](ResultPaths \cap io_skipped = {})
    /\ [](pc = "done" => (search_paths = <<>> /\ ResultPaths = eligible))
    /\ [][io_skipped' # io_skipped =>
            /\ found' = found
            /\ pc' = pc
            /\ pc \in {"loop", "iter"}
            /\ pc = "loop" => search_paths' = SubSeq(search_paths, 1, Len(search_paths) - 1)
            /\ pc = "iter" => (search_paths' = search_paths /\ path' = path)
         ]_vars

\* C2's case: a pass that returned at least one result although a directory
\* could not be listed and a directory entry or entry file could not be read.
C2_Witness ==
    /\ pc = "done"
    /\ Len(found) >= 1
    /\ \E d \in io_skipped, f \in io_skipped :
         /\ \E i \in 1..Len(listed) : listed[i] = d
         /\ \A i \in 1..Len(listed) : listed[i] # f

\* C3: find_all produces a ProgramResult for a parsed entry file if and only
\* if the file has an Exec key and NoDisplay and Hidden both equal "false"
\* (absent counting as "false").
C3_ResultIffExecAndShown == ResultPaths = eligible

\* C4: the launch command of every ProgramResult, format_exec applied to the
\* entry's Exec value, is not empty.
C4_LaunchCommandNonEmpty ==
    \A i \in 1..Len(found) : format_exec(found[i].exec) # <<>>

\* C9: the work-list loop ends with an empty work-list, having listed every
\* directory put on the work-list exactly once, with exactly one result for
\* every parsed file with Exec and both flags "false".
C9_LoopEndsHavingListedAll ==
    pc \notin {"loop", "iter"} =>
        /\ pc = "done"
        /\ search_paths = <<>>
        /\ \A d \in pushed : Cardinality({i \in 1..Len(listed) : listed[i] = d}) = 1
        /\ \A f \in eligible : Cardinality({i \in 1..Len(found) : found[i].path = f}) = 1

(***************************************************************************)
(* Properties of activation (specification ActivationSpec)                 *)
(***************************************************************************)
\* C7: a command that cannot be tokenized, that has no tokens, or whose
\* executable cannot be spawned is an error reported to the caller: the program
\* does not crash and no process is launched.
C7_ActivationFailureReported ==
    activation \in {"split_failed", "no_tokens", "spawn_failed"} => pc # "crashed"

(***************************************************************************)
(* Properties of choose_category (specification CatSpec)                   *)
(***************************************************************************)
S_APPLICATION == <<"A","P","P","L","I","C","A","T","I","O","N">>

\* The tokens of a list that are eligible: not empty and not excluded.
EligibleTokens(list) ==
    LET toks == split(unwrap_or(list, <<>>), ";")
    IN  {k \in 1..Len(toks) : toks[k] # <<>> /\ to_uppercase(toks[k]) \notin EXCLUDED_CATEGORIES}

\* C5: choose_category returns a non-empty label for every list, and exactly
\* "APPLICATION" when no eligible token remains, the absent list included.
C5_CategoryNonEmptyWithDefault ==
    cat_pc = "done" =>
        /\ cat_out # <<>>
        /\ EligibleTokens(cat_list) = {} => cat_out = S_APPLICATION

(***************************************************************************)
(* Properties of format_exec (specification ExecSpec)                      *)
(***************************************************************************)
Placeholders == {<<"%","f">>, <<"%","F">>, <<"%","D">>, <<"%","u">>, <<"%","U">>}

\* s with every occurrence of a placeholder cut out and nothing put in its place.
RECURSIVE DeletePlaceholders(_, _)
DeletePlaceholders(s, i) ==
    IF i > Len(s) THEN <<>>
    ELSE IF \E t \in Placeholders : MatchesAt(s, i, t) THEN DeletePlaceholders(s, i + 2)
    ELSE <<s[i]>> \o DeletePlaceholders(s, i + 1)

\* C6: format_exec returns its input with every occurrence of %f, %F, %D, %u
\* and %U deleted, every other character kept in order, nothing inserted.
C6_PlaceholdersDeleted ==
    fe_pc = "done" => fe_out = DeletePlaceholders(fe_exec, 1)

(***************************************************************************)
(* Properties of get_ranking (specification RankSpec)                      *)
(***************************************************************************)
\* The name lowercased, without its whitespace.
Normalized(name) == SelectSeq(to_lowercase(name), LAMBDA c : ~is_whitespace(c))

\* The greedy reference: for each query character in order, its first
\* occurrence at or after the cursor, found at offset p, scores max(10 - p, 0)
\* and moves the cursor to cursor + p + 1; a character not found scores 0 and
\* leaves the cursor where it is.
RECURSIVE GreedyScore(_, _, _)
GreedyScore(n, q, cursor) ==
    IF q = <<>> THEN 0
    ELSE LET occ == {k \in (cursor + 1)..Len(n) : n[k] = q[1]}
         IN  IF occ = {} THEN GreedyScore(n, Tail(q), cursor)
             ELSE LET first == CHOOSE k \in occ : \A j \in occ : k <= j
                      p == first - (cursor + 1)
                  IN  (IF 10 - p > 0 THEN 10 - p ELSE 0)
                        + GreedyScore(n, Tail(q), cursor + p + 1)

\* C8, as amended: get_ranking equals the greedy reference; name "chrome"
\* scores 20 for query "ch" and 19 for query "cr".
C8_RankingIsGreedy ==
    rk_pc = "done" =>
        /\ score = GreedyScore(Normalized(rk_name), rk_query, 0)
        /\ (rk_name = Chrome /\ rk_query = <<"c","h">>) => score = 20
        /\ (rk_name = Chrome /\ rk_query = <<"c","r">>) => score = 19

\* C8, as stated: get_ranking equals the greedy reference; name "chrome"
\* scores 20 for query "ch" and 18 for query "cr".
C8_AsStated ==
    rk_pc = "done" =>
        /\ score = GreedyScore(Normalized(rk_name), rk_query, 0)
        /\ (rk_name = Chrome /\ rk_query = <<"c","h">>) => score = 20
        /\ (rk_name = Chrome /\ rk_query = <<"c","r">>) => score = 18

\* C8's case: "chrome" ranked for "cr", the second character found one past
\* the cursor.
C8_Witness ==
    /\ rk_pc = "done"
    /\ rk_name = Chrome
    /\ rk_query = <<"c","r">>
    /\ score = 19
    /\ last_letter_ind = 3

IsPrefix(q, n) == Len(q) <= Len(n) /\ \A k \in 1..Len(q) : q[k] = n[k]

\* C10: after each query character the score is between 0 and 10 times the
\* number of characters processed; an empty query scores 0; a query that is a
\* prefix of the normalized name scores 10 times its length.
C10_ScoreBounds ==
    /\ rk_pc \in {"letters", "done"} => (0 <= score /\ score <= 10 * rk_i)
    /\ rk_pc = "done" =>
        /\ rk_i = Len(rk_query)
        /\ rk_query = <<>> => score = 0
        /\ IsPrefix(rk_query, Normalized(rk_name)) => score = 10 * Len(rk_query)

\* C10's case: a two-character prefix of a name with a capital and a space in
\* it, ranked at the maximum.
C10_Witness ==
    /\ rk_pc = "done"
    /\ Len(rk_query) = 2
    /\ rk_name # Normalized(rk_name)
    /\ IsPrefix(rk_query, Normalized(rk_name))
    /\ score = 20

====
